---- MODULE Spec2Model ----
(***************************************************************************)
(* Model of kern/thread/synch.c: counting semaphore, reentrant lock and    *)
(* condition variable of the kernel, on top of the scheduler's             *)
(* thread_sleep / thread_wakeup channels.                                  *)
(*                                                                         *)
(* One semaphore, one lock and one condition variable are shared by        *)
(* NThreads kernel threads.  Every primitive runs between splhigh() and    *)
(* splx() on a single CPU, so it is atomic up to the point where it calls  *)
(* thread_sleep(); an action is the code a thread runs from the call (or   *)
(* from its resumption after a wakeup) to its return or its next sleep.    *)
(***************************************************************************)
EXTENDS Integers, Sequences, FiniteSets

\* ---- bounds ------------------------------------------------------------
NThreads == 4
MaxCount == 2
MaxHold == 2

Threads == 1 .. NThreads

\* NULL thread pointer
NoThread == 0

\* Wait channels (addresses handed to thread_sleep): a thread's own address
\* is its number, NoChan means "not asleep".
NoChan == 0
ChanSem == NThreads + 1
ChanLock == NThreads + 2

VARIABLES
    sem_count,   \* sem->count
    sem_initial, \* the initial_count sem_create was called with
    lock,        \* struct lock: status, curthread_with_lock, lock_counter
    cv_q,        \* cv->q, head first
    pc,          \* per thread: the call it is inside ("idle": none)
    slp,         \* per thread: the channel it sleeps on, NoChan if runnable
    panic,       \* "none", or the assertion that halted the kernel
    last,        \* history: the step just taken [op, t, val]
    held,        \* history: per thread, completed lock_acquire calls not yet
                 \*          matched by a completed lock_release
    waitLog,     \* history: threads asleep in cv_wait, in the order they called
    vCalled,     \* history: some V has been executed
    pBeforeV,    \* history: number of P calls that returned before any V
    curspl,      \* per thread: its interrupt priority level
    spl_saved,   \* per thread: the local `spl` of each primitive it is inside,
                 \*             outermost first
    spl_entry,   \* history: per thread inside a primitive, its level at the call
    lowAccess    \* history: some primitive has run its body below SPL_HIGH

vars == <<sem_count, sem_initial, lock, cv_q, pc, slp, panic,
          last, held, waitLog, vCalled, pBeforeV,
          curspl, spl_saved, spl_entry, lowAccess>>

splVars == <<curspl, spl_saved, spl_entry, lowAccess>>

progVars == <<sem_count, lock, cv_q, pc, slp, panic>>

\* ---- scheduler and queue interface --------------------------------------

\* thread_wakeup(ch): every thread asleep on ch becomes runnable
thread_wakeup(s, ch) ==
    [u \in Threads |-> IF s[u] = ch THEN NoChan ELSE s[u]]

\* thread_sleep(ch) by t
thread_sleep(s, t, ch) == [s EXCEPT ![t] = ch]

q_empty(q) == IF q = <<>> THEN 1 ELSE 0
q_addtail(q, x) == Append(q, x)
q_remhead(q) == Tail(q)
q_head(q) == Head(q)

Woken(s1, s2) == {u \in Threads : s1[u] # NoChan /\ s2[u] = NoChan}

Ev(op, t, val) == [op |-> op, t |-> t, val |-> val]

\* ---- sem_create / lock_create / cv_create -------------------------------

\* mutant: the count is zeroed instead of taken from the argument
sem_create_mut(n) == 0

sem_create(n) == n

lock_create == [status |-> 0, curthread_with_lock |-> NoThread, lock_counter |-> 0]

cv_create == <<>>

Init ==
    /\ sem_initial \in 0 .. MaxCount
    /\ sem_count = sem_create(sem_initial)
    /\ lock = lock_create
    /\ cv_q = cv_create
    /\ pc = [t \in Threads |-> "idle"]
    /\ slp = [t \in Threads |-> NoChan]
    /\ panic = "none"
    /\ last = Ev("init", NoThread, 0)
    /\ held = [t \in Threads |-> 0]
    /\ waitLog = <<>>
    /\ vCalled = FALSE
    /\ pBeforeV = 0
    /\ curspl = [t \in Threads |-> 0]
    /\ spl_saved = [t \in Threads |-> <<>>]
    /\ spl_entry = [t \in Threads |-> 0]
    /\ lowAccess = FALSE

Runnable(t) == panic = "none" /\ slp[t] = NoChan

\* ---- interrupt priority level ----------------------------------------------

\* the highest level: all interrupts masked
SPL_HIGH == 15

\* splhigh(): the level it sets (it returns the old one, kept in `spl`)
splhigh(level) == SPL_HIGH

\* splx(s): the level it sets
splx(s) == s

\* the value of `spl` in the innermost primitive t is inside; `fresh` tells
\* that this step enters the primitive, which then saves the current level
SavedTop(t, fresh) ==
    IF fresh THEN curspl[t] ELSE spl_saved[t][Len(spl_saved[t])]

\* returning through the enclosing primitives: each does splx(spl)
RECURSIVE Unwind(_, _)
Unwind(frames, level) ==
    IF frames = <<>>
    THEN level
    ELSE Unwind(SubSeq(frames, 1, Len(frames) - 1), splx(frames[Len(frames)]))

\* The levels a step of thread t leaves.  `fresh`: the step enters a
\* primitive, whose splhigh() gives `lvl`; `exitlvl`: the level the exit path
\* of the innermost primitive sets, when the step returns.  A step that ends
\* with t inside a primitive has gone to sleep there.
SplStep(t, fresh, lvl, exitlvl) ==
    LET frames == IF fresh THEN Append(spl_saved[t], curspl[t]) ELSE spl_saved[t]
        level == IF fresh THEN lvl ELSE curspl[t]
    IN  IF panic' # "none"
        THEN UNCHANGED splVars
        ELSE /\ lowAccess' = (lowAccess \/ level # SPL_HIGH)
             /\ IF pc'[t] = "idle"
                THEN /\ curspl' = [curspl EXCEPT ![t] =
                           Unwind(SubSeq(frames, 1, Len(frames) - 1), exitlvl)]
                     /\ spl_saved' = [spl_saved EXCEPT ![t] = <<>>]
                     /\ spl_entry' = [spl_entry EXCEPT ![t] = 0]
                ELSE /\ curspl' = [curspl EXCEPT ![t] = level]
                     /\ spl_saved' = [spl_saved EXCEPT ![t] = frames]
                     /\ spl_entry' = [spl_entry EXCEPT ![t] =
                           IF pc[t] = "idle" THEN curspl[t] ELSE spl_entry[t]]

\* a primitive that neither sleeps nor returns early: splhigh() ... splx(spl)
SplCall(t) == SplStep(t, TRUE, splhigh(curspl[t]), splx(curspl[t]))

\* the caller masks or unmasks interrupts between two calls
caller_spl(t) ==
    /\ Runnable(t) /\ pc[t] = "idle"
    /\ curspl' = [curspl EXCEPT ![t] = IF curspl[t] = 0 THEN splhigh(0) ELSE 0]
    /\ last' = Ev("caller_spl", t, curspl'[t])
    /\ UNCHANGED <<sem_count, sem_initial, lock, cv_q, pc, slp, panic,
                   held, waitLog, vCalled, pBeforeV,
                   spl_saved, spl_entry, lowAccess>>

\* ---- semaphore -----------------------------------------------------------

\* mutant: `if` instead of `while` at line 78, no re-test after a wakeup
P_loop_mut(t, slept) ==
    IF sem_count = 0 /\ ~slept
    THEN /\ slp' = thread_sleep(slp, t, ChanSem)
         /\ pc' = [pc EXCEPT ![t] = "P"]
         /\ last' = Ev("P", t, 0)
         /\ UNCHANGED <<sem_count, panic, pBeforeV>>
    ELSE IF sem_count > 0
    THEN /\ sem_count' = sem_count - 1
         /\ pc' = [pc EXCEPT ![t] = "idle"]
         /\ last' = Ev("P", t, IF slept THEN 2 ELSE 1)
         /\ pBeforeV' = IF vCalled THEN pBeforeV ELSE pBeforeV + 1
         /\ UNCHANGED <<slp, panic>>
    ELSE /\ panic' = "P: sem->count>0"
         /\ last' = Ev("P", t, -1)
         /\ UNCHANGED <<sem_count, pc, slp, pBeforeV>>

\* mutant: P sleeps on the caller's own address instead of the semaphore
P_loop_wrongchan(t, slept) ==
    IF sem_count = 0
    THEN /\ slp' = thread_sleep(slp, t, t)
         /\ pc' = [pc EXCEPT ![t] = "P"]
         /\ last' = Ev("P", t, 0)
         /\ UNCHANGED <<sem_count, panic, pBeforeV>>
    ELSE IF sem_count > 0
    THEN /\ sem_count' = sem_count - 1
         /\ pc' = [pc EXCEPT ![t] = "idle"]
         /\ last' = Ev("P", t, IF slept THEN 2 ELSE 1)
         /\ pBeforeV' = IF vCalled THEN pBeforeV ELSE pBeforeV + 1
         /\ UNCHANGED <<slp, panic>>
    ELSE /\ panic' = "P: sem->count>0"
         /\ last' = Ev("P", t, -1)
         /\ UNCHANGED <<sem_count, pc, slp, pBeforeV>>

\* P from the test of its while loop (lines 78-83); `slept` tells whether the
\* thread has slept in this call already.
P_loop(t, slept) ==
    IF sem_count = 0
    THEN /\ slp' = thread_sleep(slp, t, ChanSem)
         /\ pc' = [pc EXCEPT ![t] = "P"]
         /\ last' = Ev("P", t, 0)
         /\ UNCHANGED <<sem_count, panic, pBeforeV>>
    ELSE IF sem_count > 0
    THEN /\ sem_count' = sem_count - 1
         /\ pc' = [pc EXCEPT ![t] = "idle"]
         /\ last' = Ev("P", t, IF slept THEN 2 ELSE 1)
         /\ pBeforeV' = IF vCalled THEN pBeforeV ELSE pBeforeV + 1
         /\ UNCHANGED <<slp, panic>>
    ELSE /\ panic' = "P: sem->count>0"
         /\ last' = Ev("P", t, -1)
         /\ UNCHANGED <<sem_count, pc, slp, pBeforeV>>

P(t) ==
    /\ Runnable(t) /\ pc[t] = "idle"
    /\ P_loop(t, FALSE)
    /\ UNCHANGED <<sem_initial, lock, cv_q, held, waitLog, vCalled>>
    /\ SplStep(t, TRUE, splhigh(curspl[t]), splx(SavedTop(t, TRUE)))

P_wakeup(t) ==
    /\ Runnable(t) /\ pc[t] = "P"
    /\ P_loop(t, TRUE)
    /\ UNCHANGED <<sem_initial, lock, cv_q, held, waitLog, vCalled>>
    /\ SplStep(t, FALSE, curspl[t], splx(SavedTop(t, FALSE)))

\* mutant: line 94 missing, nobody is woken
V_mut(t) ==
    /\ Runnable(t) /\ pc[t] = "idle"
    /\ sem_count < MaxCount
    /\ sem_count' = sem_count + 1
    /\ last' = Ev("V", t, 0)
    /\ vCalled' = TRUE
    /\ UNCHANGED <<sem_initial, lock, cv_q, pc, slp, panic, held, waitLog, pBeforeV>>
    /\ SplCall(t)

V(t) ==
    /\ Runnable(t) /\ pc[t] = "idle"
    /\ sem_count < MaxCount
    /\ sem_count' = sem_count + 1
    /\ IF sem_count + 1 > 0
       THEN /\ slp' = thread_wakeup(slp, ChanSem)
            /\ last' = Ev("V", t, Cardinality(Woken(slp, slp')))
            /\ UNCHANGED panic
       ELSE /\ panic' = "V: sem->count>0"
            /\ last' = Ev("V", t, -1)
            /\ UNCHANGED slp
    /\ vCalled' = TRUE
    /\ UNCHANGED <<sem_initial, lock, cv_q, pc, held, waitLog, pBeforeV>>
    /\ SplCall(t)

\* ---- lock ----------------------------------------------------------------

\* history: a completed lock_acquire / lock_release by t
held_acquire(h, t) == [h EXCEPT ![t] = h[t] + 1]
held_release(h, t) == [h EXCEPT ![t] = IF h[t] > 0 THEN h[t] - 1 ELSE 0]

\* mutant: tests whether the lock is taken, not who took it
lock_do_i_hold_mut(lk, t) == IF lk.status = 1 THEN 1 ELSE 0

\* lock_do_i_hold (lines 215-221)
lock_do_i_hold(lk, t) == IF lk.curthread_with_lock = t THEN 1 ELSE 0

\* lock_acquire, the branch of line 160: the caller owns the lock already
lock_reacquire(lk) == [lk EXCEPT !.lock_counter = lk.lock_counter + 1]

\* mutant: the loop tests the hold count against 1 instead of the status
lock_busy_mut(lk) == lk.lock_counter > 1

\* mutant: the splx of line 162 missing on the early return
lock_acquire_early_splx_mut(s) == SPL_HIGH

\* lock_acquire, line 162: the level the early return of the owner leaves
lock_acquire_early_splx(s) == splx(s)

\* lock_acquire: the level its exit path leaves for caller t, line 162 or 175
lock_acquire_exit(t, fresh) ==
    IF t = lock.curthread_with_lock /\ fresh
    THEN lock_acquire_early_splx(SavedTop(t, fresh))
    ELSE splx(SavedTop(t, fresh))

\* lock_release: the level its exit path leaves for caller t, line 194 or 206
lock_release_exit(t) ==
    IF t # lock.curthread_with_lock THEN splx(curspl[t]) ELSE splx(curspl[t])

\* lock_acquire, the test of the while loop of line 166
lock_busy(lk) == lk.status = 1

\* mutant: line 173 missing, the status is left as it was
lock_take_mut(lk, t) ==
    [status |-> lk.status, curthread_with_lock |-> t,
     lock_counter |-> lk.lock_counter + 1]

\* lock_acquire, lines 171-173
lock_take(lk, t) ==
    [status |-> 1, curthread_with_lock |-> t, lock_counter |-> lk.lock_counter + 1]

\* mutant: the ownership test of line 191 missing
lock_release_lock_anyone(lk, t) ==
    IF lk.lock_counter - 1 = 0
    THEN [status |-> 0, curthread_with_lock |-> NoThread, lock_counter |-> 0]
    ELSE [lk EXCEPT !.lock_counter = lk.lock_counter - 1]

\* mutant: the test of line 200 missing, the first release frees the lock
lock_release_lock_mut(lk, t) ==
    IF t # lk.curthread_with_lock
    THEN lk
    ELSE [status |-> 0, curthread_with_lock |-> NoThread,
          lock_counter |-> lk.lock_counter - 1]

\* lock_release, lines 191-204: the lock it leaves
lock_release_lock(lk, t) ==
    IF t # lk.curthread_with_lock
    THEN lk
    ELSE IF lk.lock_counter - 1 = 0
         THEN [status |-> 0, curthread_with_lock |-> NoThread, lock_counter |-> 0]
         ELSE [lk EXCEPT !.lock_counter = lk.lock_counter - 1]

\* mutant: line 203 missing, the sleepers on the lock are not woken
lock_release_slp_mut(lk, t, s) == s

\* lock_release, line 203: the sleepers it leaves
lock_release_slp(lk, t, s) ==
    IF t = lk.curthread_with_lock /\ lk.lock_counter - 1 = 0
    THEN thread_wakeup(s, ChanLock)
    ELSE s

\* mutant: `if` instead of `while` at line 166, no re-test after a wakeup
acquire_loop_mut(t, slept, op, sleep_pc) ==
    IF lock_busy(lock) /\ pc[t] # sleep_pc
    THEN /\ slp' = thread_sleep(slp, t, ChanLock)
         /\ pc' = [pc EXCEPT ![t] = sleep_pc]
         /\ last' = Ev(op, t, 0)
         /\ UNCHANGED <<lock, held>>
    ELSE /\ lock' = lock_take(lock, t)
         /\ pc' = [pc EXCEPT ![t] = "idle"]
         /\ held' = held_acquire(held, t)
         /\ last' = Ev(op, t, IF slept THEN 2 ELSE 1)
         /\ UNCHANGED slp

\* lock_acquire from the test of its while loop (lines 166-175), called by
\* `op`; a caller that has to sleep is left at `sleep_pc`.
acquire_loop(t, slept, op, sleep_pc) ==
    IF lock_busy(lock)
    THEN /\ slp' = thread_sleep(slp, t, ChanLock)
         /\ pc' = [pc EXCEPT ![t] = sleep_pc]
         /\ last' = Ev(op, t, 0)
         /\ UNCHANGED <<lock, held>>
    ELSE /\ lock' = lock_take(lock, t)
         /\ pc' = [pc EXCEPT ![t] = "idle"]
         /\ held' = held_acquire(held, t)
         /\ last' = Ev(op, t, IF slept THEN 2 ELSE 1)
         /\ UNCHANGED slp

\* lock_acquire from its entry (lines 156-175)
acquire_entry(t, slept, op, sleep_pc) ==
    IF t = lock.curthread_with_lock
    THEN /\ lock.lock_counter < MaxHold
         /\ lock' = lock_reacquire(lock)
         /\ pc' = [pc EXCEPT ![t] = "idle"]
         /\ held' = held_acquire(held, t)
         /\ last' = Ev(op, t, IF slept THEN 2 ELSE 1)
         /\ UNCHANGED slp
    ELSE acquire_loop(t, slept, op, sleep_pc)

lock_acquire(t) ==
    /\ Runnable(t) /\ pc[t] = "idle"
    /\ acquire_entry(t, FALSE, "lock_acquire", "lock_acquire")
    /\ UNCHANGED <<sem_count, sem_initial, cv_q, panic, waitLog, vCalled, pBeforeV>>
    /\ SplStep(t, TRUE, splhigh(curspl[t]), lock_acquire_exit(t, TRUE))

lock_acquire_wakeup(t) ==
    /\ Runnable(t) /\ pc[t] = "lock_acquire"
    /\ acquire_loop(t, TRUE, "lock_acquire", "lock_acquire")
    /\ UNCHANGED <<sem_count, sem_initial, cv_q, panic, waitLog, vCalled, pBeforeV>>
    /\ SplStep(t, FALSE, curspl[t], lock_acquire_exit(t, FALSE))

lock_release(t) ==
    /\ Runnable(t) /\ pc[t] = "idle"
    /\ lock' = lock_release_lock(lock, t)
    /\ slp' = lock_release_slp(lock, t, slp)
    /\ held' = held_release(held, t)
    /\ last' = Ev("lock_release", t, Cardinality(Woken(slp, slp')))
    /\ UNCHANGED <<sem_count, sem_initial, cv_q, pc, panic, waitLog, vCalled, pBeforeV>>
    /\ SplStep(t, TRUE, splhigh(curspl[t]), lock_release_exit(t))

lock_do_i_hold_call(t) ==
    /\ Runnable(t) /\ pc[t] = "idle"
    /\ last' = Ev("lock_do_i_hold", t, lock_do_i_hold(lock, t))
    /\ UNCHANGED <<sem_count, sem_initial, lock, cv_q, pc, slp, panic,
                   held, waitLog, vCalled, pBeforeV>>
    /\ SplCall(t)

\* ---- condition variable ---------------------------------------------------

\* the waiters still asleep on their own address, in calling order
StillWaiting(log, s) == SelectSeq(log, LAMBDA u : s[u] = u)

\* cv_wait (lines 265-270): up to thread_sleep(curthread)
cv_wait(t) ==
    /\ Runnable(t) /\ pc[t] = "idle"
    /\ IF lock_do_i_hold(lock, t) = 1
       THEN /\ cv_q' = q_addtail(cv_q, t)
            /\ lock' = lock_release_lock(lock, t)
            /\ slp' = thread_sleep(lock_release_slp(lock, t, slp), t, t)
            /\ held' = held_release(held, t)
            /\ pc' = [pc EXCEPT ![t] = "cv_wait"]
            /\ waitLog' = Append(waitLog, t)
            /\ last' = Ev("cv_wait", t, 0)
            /\ UNCHANGED panic
       ELSE /\ panic' = "cv_wait: lock_do_i_hold(lock)"
            /\ last' = Ev("cv_wait", t, -1)
            /\ UNCHANGED <<cv_q, lock, slp, held, pc, waitLog>>
    /\ UNCHANGED <<sem_count, sem_initial, vCalled, pBeforeV>>
    /\ SplCall(t)

\* mutant: line 271 missing, cv_wait returns without the lock
cv_wait_wakeup_mut(t) ==
    /\ Runnable(t) /\ pc[t] = "cv_wait"
    /\ pc' = [pc EXCEPT ![t] = "idle"]
    /\ last' = Ev("cv_wait", t, 2)
    /\ UNCHANGED <<lock, slp, held>>
    /\ UNCHANGED <<sem_count, sem_initial, cv_q, panic, waitLog, vCalled, pBeforeV>>
    /\ SplStep(t, FALSE, curspl[t], splx(SavedTop(t, FALSE)))

\* cv_wait resumed after thread_sleep(curthread): lock_acquire(lock), line 271
cv_wait_wakeup(t) ==
    /\ Runnable(t) /\ pc[t] = "cv_wait"
    /\ acquire_entry(t, TRUE, "cv_wait", "cv_wait_acquire")
    /\ UNCHANGED <<sem_count, sem_initial, cv_q, panic, waitLog, vCalled, pBeforeV>>
    /\ SplStep(t, TRUE, splhigh(curspl[t]), lock_acquire_exit(t, TRUE))

\* cv_wait resumed inside the lock_acquire of line 271
cv_wait_acquire_wakeup(t) ==
    /\ Runnable(t) /\ pc[t] = "cv_wait_acquire"
    /\ acquire_loop(t, TRUE, "cv_wait", "cv_wait_acquire")
    /\ UNCHANGED <<sem_count, sem_initial, cv_q, panic, waitLog, vCalled, pBeforeV>>
    /\ SplStep(t, FALSE, curspl[t], lock_acquire_exit(t, FALSE))

\* mutant: the head is read but left in the queue
cv_signal_q_mut(q) == q

\* cv_signal, lines 281-283: the queue it leaves
cv_signal_q(q) == IF q_empty(q) = 0 THEN q_remhead(q) ELSE q

\* mutant: wakes the newest waiter instead of the one q_remhead returns
cv_signal_slp_mut(q, s) == IF q_empty(q) = 0 THEN thread_wakeup(s, q[Len(q)]) ELSE s

\* cv_signal, lines 281-283: the sleepers it leaves
cv_signal_slp(q, s) == IF q_empty(q) = 0 THEN thread_wakeup(s, q_head(q)) ELSE s

\* mutant: the assertion of line 279 missing
cv_signal_mut(t) ==
    /\ Runnable(t) /\ pc[t] = "idle"
    /\ cv_q' = cv_signal_q(cv_q)
    /\ slp' = cv_signal_slp(cv_q, slp)
    /\ waitLog' = StillWaiting(waitLog, slp')
    /\ last' = Ev("cv_signal", t, Cardinality(Woken(slp, slp')))
    /\ UNCHANGED <<sem_count, sem_initial, lock, pc, panic, held, vCalled, pBeforeV>>
    /\ SplCall(t)

cv_signal(t) ==
    /\ Runnable(t) /\ pc[t] = "idle"
    /\ IF lock_do_i_hold(lock, t) = 1
       THEN /\ cv_q' = cv_signal_q(cv_q)
            /\ slp' = cv_signal_slp(cv_q, slp)
            /\ waitLog' = StillWaiting(waitLog, slp')
            /\ last' = Ev("cv_signal", t, Cardinality(Woken(slp, slp')))
            /\ UNCHANGED panic
       ELSE /\ panic' = "cv_signal: lock_do_i_hold(lock)"
            /\ last' = Ev("cv_signal", t, -1)
            /\ UNCHANGED <<cv_q, slp, waitLog>>
    /\ UNCHANGED <<sem_count, sem_initial, lock, pc, held, vCalled, pBeforeV>>
    /\ SplCall(t)

\* mutant: `if` instead of `while` at line 295, only the head is woken
cv_broadcast_slp_mut(q, s) == IF q_empty(q) = 0 THEN thread_wakeup(s, q_head(q)) ELSE s

\* cv_broadcast, the loop of lines 294-298: the sleepers it leaves
RECURSIVE cv_broadcast_slp(_, _)
cv_broadcast_slp(q, s) ==
    IF q_empty(q) = 0
    THEN cv_broadcast_slp(q_remhead(q), thread_wakeup(s, q_head(q)))
    ELSE s

\* mutant: the woken threads are left in the queue
cv_broadcast_q_mut(q) == q

\* cv_broadcast, the loop of lines 294-298: the queue it leaves
RECURSIVE cv_broadcast_q(_)
cv_broadcast_q(q) ==
    IF q_empty(q) = 0 THEN cv_broadcast_q(q_remhead(q)) ELSE q

cv_broadcast(t) ==
    /\ Runnable(t) /\ pc[t] = "idle"
    /\ IF lock_do_i_hold(lock, t) = 1
       THEN /\ cv_q' = cv_broadcast_q(cv_q)
            /\ slp' = cv_broadcast_slp(cv_q, slp)
            /\ waitLog' = StillWaiting(waitLog, slp')
            /\ last' = Ev("cv_broadcast", t, Cardinality(Woken(slp, slp')))
            /\ UNCHANGED panic
       ELSE /\ panic' = "cv_broadcast: lock_do_i_hold(lock)"
            /\ last' = Ev("cv_broadcast", t, -1)
            /\ UNCHANGED <<cv_q, slp, waitLog>>
    /\ UNCHANGED <<sem_count, sem_initial, lock, pc, held, vCalled, pBeforeV>>
    /\ SplCall(t)

\* ---- specification -------------------------------------------------------

Next ==
    \E t \in Threads :
        \/ P(t)
        \/ P_wakeup(t)
        \/ V(t)
        \/ lock_acquire(t)
        \/ lock_acquire_wakeup(t)
        \/ lock_release(t)
        \/ lock_do_i_hold_call(t)
        \/ cv_wait(t)
        \/ cv_wait_wakeup(t)
        \/ cv_wait_acquire_wakeup(t)
        \/ cv_signal(t)
        \/ cv_broadcast(t)

Spec == Init /\ [][Next]_vars

\* The semaphore alone: threads that only call P and V.
NextSem ==
    \E t \in Threads :
        \/ P(t)
        \/ P_wakeup(t)
        \/ V(t)

SpecSem == Init /\ [][NextSem]_vars

\* The lock and the condition variable alone: threads that never touch the
\* semaphore (created with count 0).
NextLock ==
    \E t \in Threads :
        \/ lock_acquire(t)
        \/ lock_acquire_wakeup(t)
        \/ lock_release(t)
        \/ lock_do_i_hold_call(t)
        \/ cv_wait(t)
        \/ cv_wait_wakeup(t)
        \/ cv_wait_acquire_wakeup(t)
        \/ cv_signal(t)
        \/ cv_broadcast(t)

InitLock == Init /\ sem_initial = 0

SpecLock == InitLock /\ [][NextLock]_vars

\* All primitives together, used by all threads but the last (which only
\* stands by); the semaphore is created with count 0.
Active == 1 .. (NThreads - 1)

NextAll ==
    \E t \in Active :
        \/ P(t)
        \/ P_wakeup(t)
        \/ V(t)
        \/ lock_acquire(t)
        \/ lock_acquire_wakeup(t)
        \/ lock_release(t)
        \/ lock_do_i_hold_call(t)
        \/ cv_wait(t)
        \/ cv_wait_wakeup(t)
        \/ cv_wait_acquire_wakeup(t)
        \/ cv_signal(t)
        \/ cv_broadcast(t)

SpecAll == InitLock /\ [][NextAll]_vars

\* The primitives called with interrupts masked or not: every thread but the
\* last two also raises and lowers its own level between calls.
NextSpl ==
    \E t \in 1 .. (NThreads - 2) :
        \/ P(t)
        \/ P_wakeup(t)
        \/ V(t)
        \/ lock_acquire(t)
        \/ lock_acquire_wakeup(t)
        \/ lock_release(t)
        \/ lock_do_i_hold_call(t)
        \/ cv_wait(t)
        \/ cv_wait_wakeup(t)
        \/ cv_wait_acquire_wakeup(t)
        \/ cv_signal(t)
        \/ cv_broadcast(t)
        \/ caller_spl(t)

SpecSpl == InitLock /\ [][NextSpl]_vars

\* ---- calls from interrupt handlers -------------------------------------------
\* An interrupt handler runs on top of the thread it interrupted (curthread
\* is that thread) with in_interrupt set; it can only interrupt a thread that
\* runs with interrupts unmasked.

Interrupted(t) == Runnable(t) /\ pc[t] = "idle" /\ curspl[t] # SPL_HIGH

\* P with in_interrupt set: the assertion of line 75 fails
P_intr(t) ==
    /\ Interrupted(t)
    /\ panic' = "P: in_interrupt==0"
    /\ last' = Ev("P_intr", t, -1)
    /\ UNCHANGED <<sem_count, sem_initial, lock, cv_q, pc, slp,
                   held, waitLog, vCalled, pBeforeV, splVars>>

\* lock_acquire with in_interrupt set (lines 149-176 test nothing); the
\* scheduler halts the kernel if it has to sleep
lock_acquire_intr(t) ==
    /\ Interrupted(t)
    /\ IF t = lock.curthread_with_lock
       THEN /\ lock.lock_counter < MaxHold
            /\ lock' = lock_reacquire(lock)
            /\ held' = held_acquire(held, t)
            /\ last' = Ev("lock_acquire_intr", t, 1)
            /\ UNCHANGED panic
       ELSE IF lock_busy(lock)
       THEN /\ panic' = "thread_sleep: in_interrupt==0"
            /\ last' = Ev("lock_acquire_intr", t, -1)
            /\ UNCHANGED <<lock, held>>
       ELSE /\ lock' = lock_take(lock, t)
            /\ held' = held_acquire(held, t)
            /\ last' = Ev("lock_acquire_intr", t, 1)
            /\ UNCHANGED panic
    /\ UNCHANGED <<sem_count, sem_initial, cv_q, pc, slp, waitLog, vCalled, pBeforeV>>
    /\ SplStep(t, TRUE, splhigh(curspl[t]), lock_acquire_exit(t, TRUE))

\* cv_wait with in_interrupt set (lines 261-270 test only the ownership); the
\* scheduler halts the kernel at thread_sleep, after the enqueue and the release
cv_wait_intr(t) ==
    /\ Interrupted(t)
    /\ IF lock_do_i_hold(lock, t) = 1
       THEN /\ cv_q' = q_addtail(cv_q, t)
            /\ lock' = lock_release_lock(lock, t)
            /\ slp' = lock_release_slp(lock, t, slp)
            /\ held' = held_release(held, t)
            /\ panic' = "thread_sleep: in_interrupt==0"
       ELSE /\ panic' = "cv_wait: lock_do_i_hold(lock)"
            /\ UNCHANGED <<cv_q, lock, slp, held>>
    /\ last' = Ev("cv_wait_intr", t, -1)
    /\ UNCHANGED <<sem_count, sem_initial, pc, waitLog, vCalled, pBeforeV, splVars>>

NextIntr ==
    \/ NextAll
    \/ \E t \in Active :
          \/ P_intr(t)
          \/ lock_acquire_intr(t)
          \/ cv_wait_intr(t)

SpecIntr == InitLock /\ [][NextIntr]_vars

\* Semaphore hand-over: the semaphore starts at 0, thread 1 calls P, thread 2
\* calls V once, and there is no other P or V; the other threads use the lock
\* meanwhile.  The scheduler runs every runnable thread eventually, so a
\* woken P is resumed.
NextHandover ==
    \/ ~vCalled /\ P(1)
    \/ P_wakeup(1)
    \/ ~vCalled /\ V(2)
    \/ \E t \in Threads \ {1, 2} :
          \/ lock_acquire(t)
          \/ lock_acquire_wakeup(t)
          \/ lock_release(t)
          \/ lock_do_i_hold_call(t)

SpecHandover ==
    InitLock /\ [][NextHandover]_vars /\ WF_vars(P_wakeup(1))

\* ---- properties ------------------------------------------------------------

\* threads asleep in cv_wait on their own address
Waiters == {u \in Threads : pc[u] = "cv_wait" /\ slp[u] = u}

\* C1: once a thread has completed k >= 1 unmatched lock_acquire calls it is
\* the owner with hold count k, and no other thread has a completed
\* lock_acquire: nobody else's lock_acquire returns before its k-th release.
C1_ReentrantMutualExclusion ==
    \A t \in Threads :
        held[t] >= 1 =>
            /\ lock.curthread_with_lock = t
            /\ lock.lock_counter = held[t]
            /\ \A u \in Threads \ {t} : held[u] = 0

\* A acquired twice and released once; it still holds, B is still inside
\* its lock_acquire.
C1_Witness ==
    \E t \in Threads, u \in Threads :
        /\ t # u
        /\ last = Ev("lock_release", t, 0)
        /\ held[t] = 1
        /\ pc[u] = "lock_acquire"

\* C2: the semaphore count is never negative and the assertion count > 0
\* before the decrement of P never fails.
C2_CountNeverNegative ==
    /\ sem_count >= 0
    /\ panic # "P: sem->count>0"

\* a P that had slept returned, taking the count from 1 back to 0
C2_Witness ==
    /\ sem_count = 0
    /\ last.op = "P"
    /\ last.val = 2

\* C3: a thread blocked inside cv_wait does not own the lock, whatever hold
\* count it entered with.
C3_WaiterDoesNotOwnLock ==
    \A t \in Threads :
        (pc[t] = "cv_wait" /\ slp[t] = t) => lock.curthread_with_lock # t

\* C4: when cv_wait returns, the caller owns the lock and no other thread
\* holds it.
C4_WaitReturnsOwningLock ==
    (last.op = "cv_wait" /\ last.val = 2) =>
        /\ lock.curthread_with_lock = last.t
        /\ lock.status = 1
        /\ held[last.t] >= 1
        /\ \A u \in Threads \ {last.t} : held[u] = 0

\* a cv_wait has returned after a signal and a release by another thread
C4_Witness ==
    \E t \in Threads :
        /\ last = Ev("cv_wait", t, 2)
        /\ lock.curthread_with_lock = t
        /\ lock.lock_counter = 1

\* C5: every cv_signal on a cv with waiters wakes exactly the thread that
\* has been waiting longest, so signals wake waiters in the order they called
\* cv_wait.
C5_SignalWakesInWaitOrder ==
    [][(last'.op = "cv_signal" /\ last'.val >= 0 /\ waitLog # <<>>) =>
           /\ Woken(slp, slp') = {Head(waitLog)}
           /\ waitLog' = Tail(waitLog)]_vars

\* three waiters have been woken, the last of them by a cv_signal
C5_Witness ==
    /\ last.op = "cv_signal"
    /\ last.val = 1
    /\ waitLog = <<>>
    /\ Cardinality({u \in Threads : pc[u] = "cv_wait" /\ slp[u] = NoChan}) = 3

\* C6: cv_broadcast wakes every waiter and empties the queue; a cv_signal
\* right after it changes nothing and wakes nobody.
C6_BroadcastWakesAll ==
    [][/\ (last'.op = "cv_broadcast" /\ last'.val >= 0) =>
             /\ Woken(slp, slp') = Waiters
             /\ last'.val = Cardinality(Waiters)
             /\ cv_q' = <<>>
             /\ Waiters' = {}
       /\ (last.op = "cv_broadcast" /\ last.val >= 0
             /\ last'.op = "cv_signal" /\ last'.val >= 0) =>
             /\ UNCHANGED progVars
             /\ last'.val = 0]_vars

\* a broadcast has woken two or more waiters
C6_Witness ==
    /\ last.op = "cv_broadcast"
    /\ last.val >= 2
    /\ cv_q = <<>>

\* C7: before any V, at most sem_initial calls to P have returned, each of
\* them without sleeping and each taking one unit of the count, and a P that
\* has not returned is the one after the sem_initial-th and is asleep.
C7_InitialCountManyP ==
    /\ pBeforeV <= sem_initial
    /\ ~vCalled =>
          /\ sem_count = sem_initial - pBeforeV
          /\ last.op = "P" => last.val \in {0, 1}
          /\ \A t \in Threads :
                pc[t] = "P" => (pBeforeV = sem_initial /\ slp[t] = ChanSem)

\* N = 2 calls to P have returned and a third is blocked, no V so far
C7_Witness ==
    /\ ~vCalled
    /\ sem_initial = 2
    /\ pBeforeV = 2
    /\ \E t \in Threads : pc[t] = "P" /\ slp[t] = ChanSem

\* C8: a lock_acquire on a free lock returns at once with the caller as
\* owner; one on a lock another thread owns sleeps; and a lock_acquire that
\* slept returns only from a state in which no thread holds the lock, leaving
\* the caller the owner with hold count 1 (lock_do_i_hold true).
C8_RacingAcquire ==
    [][\A t \in Threads :
          /\ (pc[t] = "idle" /\ last' = Ev("lock_acquire", t, 1)) =>
                \/ lock.curthread_with_lock = t
                \/ /\ lock.status = 0
                   /\ \A u \in Threads : held[u] = 0
                   /\ lock'.lock_counter = 1
                   /\ lock_do_i_hold(lock', t) = 1
          /\ (pc[t] = "idle" /\ last'.op = "lock_acquire" /\ last'.t = t
                /\ lock.curthread_with_lock \notin {NoThread, t}) =>
                /\ last'.val = 0
                /\ pc'[t] = "lock_acquire"
                /\ lock' = lock
          /\ (pc[t] = "lock_acquire" /\ pc'[t] = "idle") =>
                /\ \A u \in Threads : held[u] = 0
                /\ lock.curthread_with_lock = NoThread
                /\ lock'.lock_counter = 1
                /\ held'[t] = 1
                /\ lock_do_i_hold(lock', t) = 1]_vars

\* the loser of the race has returned from lock_acquire after sleeping
C8_Witness ==
    \E t \in Threads :
        /\ last = Ev("lock_acquire", t, 2)
        /\ lock_do_i_hold(lock, t) = 1

\* C9: hold count zero iff no owner, status 1 iff there is an owner, hold
\* count never negative.
C9_LockInvariant ==
    /\ lock.lock_counter = 0 <=> lock.curthread_with_lock = NoThread
    /\ lock.status = 1 <=> lock.curthread_with_lock # NoThread
    /\ lock.lock_counter >= 0

\* the lock is held twice over while another thread sleeps on it
C9_Witness ==
    /\ lock.lock_counter = 2
    /\ lock.status = 1
    /\ \E u \in Threads : slp[u] = ChanLock

\* C10: lock_do_i_hold by t returns 1 exactly when t has a completed
\* lock_acquire not yet matched by a completed lock_release, and the call
\* changes no state of the lock, the cv or the scheduler.
C10_DoIHold ==
    /\ [](last.op = "lock_do_i_hold" =>
             (last.val = 1 <=> held[last.t] >= 1))
    /\ [][last'.op = "lock_do_i_hold" => UNCHANGED <<progVars, held>>]_vars

\* lock_do_i_hold has answered 0 to a thread while another one holds the lock
C10_Witness ==
    \E t \in Threads :
        /\ last = Ev("lock_do_i_hold", t, 0)
        /\ lock.curthread_with_lock \notin {NoThread, t}

C13_CvNeedsLock ==
    [][(/\ last'.op \in {"cv_wait", "cv_signal", "cv_broadcast"}
        /\ pc[last'.t] = "idle"
        /\ lock.curthread_with_lock # last'.t) =>
           /\ panic' # "none"
           /\ last'.val = -1
           /\ UNCHANGED <<sem_count, lock, cv_q, pc, slp>>]_vars

\* a thread without the lock called cv_signal while a waiter was queued
C13_Witness ==
    /\ panic = "cv_signal: lock_do_i_hold(lock)"
    /\ cv_q # <<>>
    /\ lock.curthread_with_lock # last.t

\* C16: V adds exactly 1 to the count and makes every thread asleep on the
\* semaphore runnable; a woken thread that finds the count at 0 goes back to
\* sleep on the semaphore, one that finds it positive takes one unit.
C16_VWakesAllOneWins ==
    [][/\ last'.op = "V" =>
             /\ sem_count' = sem_count + 1
             /\ \A u \in Threads :
                   /\ slp[u] = ChanSem => (slp'[u] = NoChan /\ pc'[u] = "P")
                   /\ slp[u] # ChanSem => slp'[u] = slp[u]
             /\ last'.val = Cardinality({u \in Threads : slp[u] = ChanSem})
       /\ \A t \in Threads :
             (pc[t] = "P" /\ last'.op = "P" /\ last'.t = t) =>
                 IF sem_count = 0
                 THEN slp'[t] = ChanSem /\ pc'[t] = "P" /\ sem_count' = 0
                 ELSE pc'[t] = "idle" /\ sem_count' = sem_count - 1]_vars

\* a single V has woken two or more sleepers with one unit to take
C16_Witness ==
    /\ last.op = "V"
    /\ last.val >= 2
    /\ sem_count = 1

\* C17: cv_signal on a non-empty queue removes the head and wakes that thread
\* only; the rest of the queue, the other sleepers and the lock are unchanged.
C17_SignalFrame ==
    [][(last'.op = "cv_signal" /\ last'.val >= 0 /\ cv_q # <<>>) =>
           /\ cv_q' = Tail(cv_q)
           /\ slp[Head(cv_q)] = Head(cv_q)
           /\ slp' = [slp EXCEPT ![Head(cv_q)] = NoChan]
           /\ lock' = lock
           /\ pc' = pc]_vars

\* a signal has woken the head while another waiter stays queued and asleep
C17_Witness ==
    /\ last.op = "cv_signal"
    /\ last.val = 1
    /\ \E u \in Threads : cv_q = <<u>> /\ slp[u] = u

\* C18: a thread is in the wait queue exactly when it is asleep on its own
\* address inside cv_wait, and no thread is queued twice.
C18_QueueMatchesSleepers ==
    /\ \A t \in Threads :
          (\E i \in 1 .. Len(cv_q) : cv_q[i] = t) <=> t \in Waiters
    /\ \A i, j \in 1 .. Len(cv_q) : i # j => cv_q[i] # cv_q[j]

\* two threads are queued and asleep while a third runs with the lock
C18_Witness ==
    /\ Len(cv_q) = 2
    /\ lock.curthread_with_lock # NoThread
    /\ lock.curthread_with_lock \notin Waiters

\* C15: with the semaphore at 0, once thread 1 is blocked in P and thread 2
\* has executed V, thread 1's P eventually returns, and the count is then
\* back at 0.
C15_Handover ==
    (pc[1] = "P" /\ vCalled) ~>
        (last = Ev("P", 1, 2) /\ pc[1] = "idle" /\ sem_count = 0)

\* thread 1 slept in P, thread 2 ran V, thread 1's P has returned
C15_Witness ==
    /\ last = Ev("P", 1, 2)
    /\ vCalled
    /\ sem_initial = 0
    /\ sem_count = 0

InQueue(q, t) == \E i \in 1 .. Len(q) : q[i] = t

\* C19: a blocked operation returns only after its matching operation.  A P
\* sleeps only at count 0, returns only at count > 0, and only V raises the
\* count; a lock_acquire sleeps only on a taken lock, returns after sleeping
\* only on a free one, and only the owner's release from hold count 1 frees
\* it; cv_wait always sleeps, queued, is woken only by a cv_signal or
\* cv_broadcast that dequeues it, and returns only dequeued.
C19_NoSpuriousReturn ==
    [][/\ sem_count' > sem_count => last'.op = "V"
       /\ (lock.status = 1 /\ lock'.status = 0) =>
             /\ last'.op \in {"lock_release", "cv_wait"}
             /\ last'.t = lock.curthread_with_lock
             /\ lock.lock_counter = 1
       /\ \A t \in Threads :
             /\ (pc[t] = "idle" /\ pc'[t] = "P") => sem_count = 0
             /\ (pc[t] = "P" /\ pc'[t] = "idle") =>
                   (slp[t] = NoChan /\ sem_count > 0)
             /\ (pc[t] = "idle" /\ pc'[t] = "lock_acquire") =>
                   (lock.status = 1 /\ lock.curthread_with_lock # t)
             /\ (pc[t] \in {"lock_acquire", "cv_wait_acquire"} /\ pc'[t] = "idle") =>
                   (slp[t] = NoChan /\ lock.status = 0)
             /\ (pc[t] = "idle" /\ last'.op = "cv_wait" /\ last'.t = t
                   /\ last'.val >= 0) =>
                   (pc'[t] = "cv_wait" /\ slp'[t] = t /\ InQueue(cv_q', t))
             /\ (slp[t] = t /\ slp'[t] = NoChan) =>
                   /\ last'.op \in {"cv_signal", "cv_broadcast"}
                   /\ InQueue(cv_q, t) /\ ~InQueue(cv_q', t)
             /\ (pc[t] \in {"cv_wait", "cv_wait_acquire"} /\ pc'[t] = "idle") =>
                   (slp[t] = NoChan /\ ~InQueue(cv_q, t) /\ lock.status = 0)]_vars

\* a cv_wait has returned after a signal while the semaphore has been raised
C19_Witness ==
    \E t \in Threads :
        /\ last = Ev("cv_wait", t, 2)
        /\ sem_count > 0

\* C20: no thread is asleep on the semaphore while its count is positive,
\* and no thread is asleep on the lock while the lock is free.
C20_NoLostWakeup ==
    /\ sem_count > 0 => \A t \in Threads : slp[t] # ChanSem
    /\ lock.status = 0 => \A t \in Threads : slp[t] # ChanLock

\* a woken P faces a positive count and a woken lock_acquire a free lock
C20_Witness ==
    /\ sem_count > 0
    /\ lock.status = 0
    /\ \E t \in Threads : pc[t] = "P" /\ slp[t] = NoChan
    /\ \E u \in Threads : pc[u] = "lock_acquire" /\ slp[u] = NoChan

\* C12: P, lock_acquire and cv_wait entered with in_interrupt set fail an
\* assertion before changing any state.
C12_BlockingOpsRejectInterrupt ==
    [][last'.op \in {"P_intr", "lock_acquire_intr", "cv_wait_intr"} =>
           /\ panic' # "none"
           /\ last'.val = -1
           /\ UNCHANGED <<sem_count, lock, cv_q, pc, slp>>]_vars

Primitives ==
    {"P", "V", "lock_acquire", "lock_release", "lock_do_i_hold",
     "cv_wait", "cv_signal", "cv_broadcast"}

\* C14: every primitive returns with the caller's interrupt priority level
\* as it was at the call, also on the early returns and after sleeping; its
\* body never runs below SPL_HIGH, and a thread that sleeps inside a primitive
\* is resumed at SPL_HIGH.
C14_LevelRestored ==
    /\ [](~lowAccess /\ \A t \in Threads : pc[t] # "idle" => curspl[t] = SPL_HIGH)
    /\ [][\A t \in Threads :
             (last'.op \in Primitives /\ last'.t = t /\ panic' = "none"
                 /\ pc'[t] = "idle") =>
                 /\ curspl'[t] = IF pc[t] = "idle" THEN curspl[t] ELSE spl_entry[t]
                 /\ spl_saved'[t] = <<>>]_vars

\* the owner has re-acquired the lock (the early return of lock_acquire) with
\* interrupts masked by its caller, while another thread sleeps on the lock
C14_Witness ==
    \E t \in Threads :
        /\ last = Ev("lock_acquire", t, 1)
        /\ lock.lock_counter = 2
        /\ curspl[t] = SPL_HIGH
        /\ \E u \in Threads : slp[u] = ChanLock /\ spl_entry[u] = SPL_HIGH

====
